---- MODULE Spec2Model ----
(***************************************************************************)
(* A model of hubcaps' request records and their builders (src/rep.rs) and *)
(* of the flexible DateTime decoder (src/datetime.rs), and of the starred  *)
(* query (src/stars.rs).                                                   *)
(*                                                                         *)
(* Encoded output is a sequence of tokens, each a pair <<class, text>>:    *)
(*   <<"punct", c>>  one of { } [ ] , :                                    *)
(*   <<"key", k>>    the quoted field name k                               *)
(*   <<"str", s>>    the quoted (escaped) string s                         *)
(*   <<"lit", l>>    one of true, false, null                              *)
(* An Option is a sequence of length 0 (None) or 1 (Some).                 *)
(***************************************************************************)
EXTENDS Integers, Sequences, FiniteSets, TLC

VARIABLES builder, calls, req, out, human, relaxed, node, request, result,
          shown, asked, sent, reply, starred

vars == <<builder, calls, req, out, human, relaxed, node, request, result,
          shown, asked, sent, reply, starred>>

\* ------------------------------------------------------------ bounds
\* The longest sequence of setter calls made on one builder.
MaxCalls == 3
\* Integer inputs lie within this distance of a landmark value.
MaxOff == 2
\* The most is_starred calls made one after another.
MaxAsked == 2

\* ------------------------------------------------------------ values
None == <<>>
Some(v) == <<v>>
is_some(o) == Len(o) = 1
is_none(o) == Len(o) = 0

\* Text values a caller passes; "" is the explicitly empty value.
Strings == {"", "test"}
\* Lists of context names; <<>> is the explicitly empty list.
StringLists == {<<>>, <<"ci">>}
\* statuses::State, a C-like enum.
States == {"pending", "success"}
\* Json values handed to DeploymentReqBuilder::payload.
Jsons == {[j |-> "Null"], [j |-> "String", s |-> "test"]}

\* Json::to_string: the compact textual rendering of a Json value.
Json_to_string(p) ==
  IF p.j = "Null" THEN "null" ELSE "\"" \o p.s \o "\""

\* ------------------------------------------------------------ json::Encoder
P(c) == <<"punct", c>>
Key(k) == <<"key", k>>

emit_str(s) == << <<"str", s>> >>
emit_bool(b) == << <<"lit", IF b THEN "true" ELSE "false">> >>
emit_option_none == << <<"lit", "null">> >>
\* A unit variant of an enum is written as its name, a string.
emit_enum_variant(name) == << <<"str", name>> >>

emit_struct(body) == <<P("{")>> \o body \o <<P("}")>>

\* A separator is written before every field whose index is not zero.
emit_struct_field(name, idx, body) ==
  (IF idx # 0 THEN <<P(",")>> ELSE <<>>) \o <<Key(name), P(":")>> \o body

RECURSIVE emit_seq_elts(_, _)
emit_seq_elts(v, idx) ==
  IF idx > Len(v) THEN <<>>
  ELSE (IF idx # 1 THEN <<P(",")>> ELSE <<>>) \o emit_str(v[idx])
       \o emit_seq_elts(v, idx + 1)

\* Vec<String>::encode
emit_seq(v) == <<P("[")>> \o emit_seq_elts(v, 1) \o <<P("]")>>

\* T::encode for the types of the fields.
encode(type, v) ==
  CASE type = "str" -> emit_str(v)
    [] type = "bool" -> emit_bool(v)
    [] type = "list" -> emit_seq(v)
\* Option<T>::encode: null for None, the value's own encoding for Some.
EncodeOption(o, type) == IF is_some(o) THEN encode(type, o[1]) ELSE emit_option_none

\* ------------------------------------------------------------ DeploymentReq
DeploymentReqBuilder_new(commit) ==
  [kind |-> "DeploymentReqBuilder", commit_ref |-> commit, task |-> None,
   auto_merge |-> None, required_contexts |-> None, payload |-> None,
   environment |-> None, description |-> None]

DeploymentReqBuilder_task(b, task) == [b EXCEPT !.task = Some(task)]
DeploymentReqBuilder_auto_merge(b, am) == [b EXCEPT !.auto_merge = Some(am)]
DeploymentReqBuilder_required_contexts(b, ctxs) ==
  [b EXCEPT !.required_contexts = Some(ctxs)]
DeploymentReqBuilder_payload(b, pl) == [b EXCEPT !.payload = Some(pl)]
DeploymentReqBuilder_environment(b, env) == [b EXCEPT !.environment = Some(env)]
\* A setter that takes an empty description for none.
DeploymentReqBuilder_description_SkipsEmpty(b, desc) ==
  IF desc = "" THEN b ELSE [b EXCEPT !.description = Some(desc)]
DeploymentReqBuilder_description(b, desc) == [b EXCEPT !.description = Some(desc)]

DeploymentReqBuilder_build(b) ==
  [kind |-> "DeploymentReq", commit_ref |-> b.commit_ref, task |-> b.task,
   auto_merge |-> b.auto_merge, required_contexts |-> b.required_contexts,
   payload |-> IF is_some(b.payload) THEN Some(Json_to_string(b.payload[1]))
               ELSE None,
   environment |-> b.environment, description |-> b.description]

\* The repeated step of the hand-written encoders that count their fields:
\*   if x.is_some() { index += 1; emit_struct_field(name, index, x.encode) }
\* acc is [index, out].
EmitIfSome(acc, name, o, type) ==
  IF is_some(o)
  THEN [index |-> acc.index + 1,
        out |-> acc.out \o emit_struct_field(name, acc.index + 1, EncodeOption(o, type))]
  ELSE acc

DeploymentReq_encode(r) ==
  LET a0 == [index |-> 0,
             out |-> emit_struct_field("ref", 0, emit_str(r.commit_ref))]
      a1 == EmitIfSome(a0, "task", r.task, "str")
      a2 == EmitIfSome(a1, "auto_merge", r.auto_merge, "bool")
      a3 == EmitIfSome(a2, "required_contexts", r.required_contexts, "list")
      a4 == EmitIfSome(a3, "payload", r.payload, "str")
      a5 == EmitIfSome(a4, "environment", r.environment, "str")
      a6 == EmitIfSome(a5, "description", r.description, "str")
  IN  emit_struct(a6.out)

\* ------------------------------------------------------------ PullEdit
PullEditBuilder_new ==
  [kind |-> "PullEditBuilder", title |-> None, body |-> None, state |-> None]

PullEditBuilder_title(b, title) == [b EXCEPT !.title = Some(title)]
PullEditBuilder_body(b, body) == [b EXCEPT !.body = Some(body)]
PullEditBuilder_state(b, state) == [b EXCEPT !.state = Some(state)]

PullEditBuilder_build(b) ==
  [kind |-> "PullEdit", title |-> b.title, body |-> b.body, state |-> b.state]

PullEdit_new(title, body, state) ==
  [kind |-> "PullEdit", title |-> title, body |-> body, state |-> state]

\* PullEdit::encode with state written before body.
PullEdit_encode_StateSecond(r) ==
  LET a0 == [index |-> -1, out |-> <<>>]
      a1 == EmitIfSome(a0, "title", r.title, "str")
      a2 == EmitIfSome(a1, "state", r.state, "str")
      a3 == EmitIfSome(a2, "body", r.body, "str")
  IN  emit_struct(a3.out)

\* index starts at -1 and is incremented before each use.
PullEdit_encode(r) ==
  LET a0 == [index |-> -1, out |-> <<>>]
      a1 == EmitIfSome(a0, "title", r.title, "str")
      a2 == EmitIfSome(a1, "body", r.body, "str")
      a3 == EmitIfSome(a2, "state", r.state, "str")
  IN  emit_struct(a3.out)

\* ------------------------------------------------------------ ReleaseReq
ReleaseReq_new(tag, commit, name, body, draft, prerelease) ==
  [kind |-> "ReleaseReq", tag_name |-> tag, target_commitish |-> commit,
   name |-> name, body |-> body, draft |-> draft, prerelease |-> prerelease]

ReleaseBuilder_new(tag) ==
  [kind |-> "ReleaseBuilder", tag |-> tag, commitish |-> None, name |-> None,
   body |-> None, draft |-> None, prerelease |-> None]

ReleaseBuilder_commitish(b, commit) == [b EXCEPT !.commitish = Some(commit)]
\* A setter that keeps the name it was first given.
ReleaseBuilder_name_KeepsFirst(b, name) ==
  IF is_some(b.name) THEN b ELSE [b EXCEPT !.name = Some(name)]
ReleaseBuilder_name(b, name) == [b EXCEPT !.name = Some(name)]
ReleaseBuilder_body(b, body) == [b EXCEPT !.body = Some(body)]
ReleaseBuilder_draft(b, draft) == [b EXCEPT !.draft = Some(draft)]
ReleaseBuilder_prerelease(b, pre) == [b EXCEPT !.prerelease = Some(pre)]

ReleaseBuilder_build(b) ==
  ReleaseReq_new(b.tag, b.commitish, b.name, b.body, b.draft, b.prerelease)

\* #[derive(RustcEncodable)]: every field of the struct is emitted, in
\* declaration order, with its position as index; an Option field is encoded
\* by Option::encode, which writes null for None.
ReleaseReq_encode(r) ==
  emit_struct(
    emit_struct_field("tag_name", 0, emit_str(r.tag_name))
    \o emit_struct_field("target_commitish", 1, EncodeOption(r.target_commitish, "str"))
    \o emit_struct_field("name", 2, EncodeOption(r.name, "str"))
    \o emit_struct_field("body", 3, EncodeOption(r.body, "str"))
    \o emit_struct_field("draft", 4, EncodeOption(r.draft, "bool"))
    \o emit_struct_field("prerelease", 5, EncodeOption(r.prerelease, "bool")))

\* ------------------------------------------------------------ DeploymentStatusReq
DeploymentStatusReqBuilder_new(state) ==
  [kind |-> "DeploymentStatusReqBuilder", state |-> state, target_url |-> None,
   description |-> None]

DeploymentStatusReqBuilder_target_url(b, url) == [b EXCEPT !.target_url = Some(url)]
DeploymentStatusReqBuilder_description(b, desc) ==
  [b EXCEPT !.description = Some(desc)]

DeploymentStatusReqBuilder_build(b) ==
  [kind |-> "DeploymentStatusReq", state |-> b.state, target_url |-> b.target_url,
   description |-> b.description]

\* DeploymentStatusReq::encode with description written before target_url.
DeploymentStatusReq_encode_DescriptionFirst(r) ==
  LET a0 == [index |-> 0,
             out |-> emit_struct_field("state", 0, emit_enum_variant(r.state))]
      a1 == EmitIfSome(a0, "description", r.description, "str")
      a2 == EmitIfSome(a1, "target_url", r.target_url, "str")
  IN  emit_struct(a2.out)

DeploymentStatusReq_encode(r) ==
  LET a0 == [index |-> 0,
             out |-> emit_struct_field("state", 0, emit_enum_variant(r.state))]
      a1 == EmitIfSome(a0, "target_url", r.target_url, "str")
      a2 == EmitIfSome(a1, "description", r.description, "str")
  IN  emit_struct(a2.out)

\* ------------------------------------------------------------ StatusReq
StatusReq_new(state, target_url, descr, context) ==
  [kind |-> "StatusReq", state |-> state, target_url |-> target_url,
   description |-> descr, context |-> context]

StatusBuilder_new(state) ==
  [kind |-> "StatusBuilder", state |-> state, target_url |-> None,
   description |-> None, context |-> None]

StatusBuilder_target_url(b, url) == [b EXCEPT !.target_url = Some(url)]
StatusBuilder_description(b, desc) == [b EXCEPT !.description = Some(desc)]
StatusBuilder_context(b, ctx) == [b EXCEPT !.context = Some(ctx)]

StatusBuilder_build(b) ==
  StatusReq_new(b.state, b.target_url, b.description, b.context)

\* An encoder that writes context ahead of target_url and description.
StatusReq_encode_ContextFirst(r) ==
  LET s0 == emit_struct_field("state", 0, emit_enum_variant(r.state))
      s1 == IF is_some(r.context)
            THEN s0 \o emit_struct_field("context", 0, EncodeOption(r.context, "str"))
            ELSE s0
      s2 == IF is_some(r.target_url)
            THEN s1 \o emit_struct_field("target_url", 0, EncodeOption(r.target_url, "str"))
            ELSE s1
      s3 == IF is_some(r.description)
            THEN s2 \o emit_struct_field("description", 0, EncodeOption(r.description, "str"))
            ELSE s2
  IN  emit_struct(s3)

\* Every field is emitted with the literal index 0usize.
StatusReq_encode(r) ==
  LET s0 == emit_struct_field("state", 0, emit_enum_variant(r.state))
      s1 == IF is_some(r.target_url)
            THEN s0 \o emit_struct_field("target_url", 0, EncodeOption(r.target_url, "str"))
            ELSE s0
      s2 == IF is_some(r.description)
            THEN s1 \o emit_struct_field("description", 0, EncodeOption(r.description, "str"))
            ELSE s1
      s3 == IF is_some(r.context)
            THEN s2 \o emit_struct_field("context", 0, EncodeOption(r.context, "str"))
            ELSE s2
  IN  emit_struct(s3)

\* ------------------------------------------------------------ GistReq
Content_new(filename, content) == [filename |-> filename, content |-> content]

\* Both fields are emitted with the literal index 0_usize.
Content_encode(c) ==
  LET s0 == IF is_some(c.filename)
            THEN emit_struct_field("filename", 0, EncodeOption(c.filename, "str"))
            ELSE <<>>
  IN  emit_struct(s0 \o emit_struct_field("content", 0, emit_str(c.content)))

\* files is the caller's map as a sequence of <<name, text>> pairs with distinct
\* names, in the order the resulting HashMap iterates.
RECURSIVE GistReq_new_contents(_, _)
GistReq_new_contents(files, i) ==
  IF i > Len(files) THEN <<>>
  ELSE << <<files[i][1], Content_new(None, files[i][2])>> >>
       \o GistReq_new_contents(files, i + 1)

\* GistReq::new naming each file inside its content as well.
GistReq_new_NamesContents(desc, public, files) ==
  [kind |-> "GistReq", description |-> desc, public |-> Some(public),
   files |-> [i \in DOMAIN files |->
                <<files[i][1], Content_new(Some(files[i][1]), files[i][2])>>]]

GistReq_new(desc, public, files) ==
  [kind |-> "GistReq", description |-> desc, public |-> Some(public),
   files |-> GistReq_new_contents(files, 1)]

\* HashMap<String, Content>::encode: a separator before every entry but the first.
RECURSIVE emit_map_elts(_, _)
emit_map_elts(m, idx) ==
  IF idx > Len(m) THEN <<>>
  ELSE (IF idx # 1 THEN <<P(",")>> ELSE <<>>)
       \o <<Key(m[idx][1]), P(":")>> \o Content_encode(m[idx][2])
       \o emit_map_elts(m, idx + 1)

emit_map(m) == <<P("{")>> \o emit_map_elts(m, 1) \o <<P("}")>>

GistReq_encode(r) ==
  LET a0 == [index |-> -1, out |-> <<>>]
      a1 == EmitIfSome(a0, "description", r.description, "str")
      a2 == EmitIfSome(a1, "public", r.public, "bool")
  IN  emit_struct(a2.out \o emit_struct_field("files", a2.index + 1, emit_map(r.files)))

\* Maps of gist files handed to GistReq::new.
FileMaps ==
  {<<>>, << <<"foo", "bar">> >>, << <<"foo", "bar">>, <<"x", "">> >>,
   << <<"x", "">>, <<"foo", "bar">> >>}

\* ------------------------------------------------------------ dispatch
\* builder.build() of the builder's own type.
Build(b) ==
  CASE b.kind = "DeploymentReqBuilder" -> DeploymentReqBuilder_build(b)
    [] b.kind = "PullEditBuilder" -> PullEditBuilder_build(b)
    [] b.kind = "ReleaseBuilder" -> ReleaseBuilder_build(b)
    [] b.kind = "DeploymentStatusReqBuilder" -> DeploymentStatusReqBuilder_build(b)
    [] b.kind = "StatusBuilder" -> StatusBuilder_build(b)

\* json::encode(&r): the Encodable impl of the record's own type.
Encode(r) ==
  CASE r.kind = "DeploymentReq" -> DeploymentReq_encode(r)
    [] r.kind = "PullEdit" -> PullEdit_encode(r)
    [] r.kind = "ReleaseReq" -> ReleaseReq_encode(r)
    [] r.kind = "DeploymentStatusReq" -> DeploymentStatusReq_encode(r)
    [] r.kind = "StatusReq" -> StatusReq_encode(r)
    [] r.kind = "GistReq" -> GistReq_encode(r)

\* ------------------------------------------------------------ state
\* builder: the builder under construction (NoBuilder when the caller uses none)
\* calls:   the setter calls made on it so far, <<setter, argument>> each
\* req:     the record last produced, with the calls that preceded its build()
\* out:     the last encoding made, with the record it encodes
NoBuilder == [kind |-> "none"]
NoReq == [kind |-> "none"]
NoResult == [ok |-> FALSE, error |-> "none"]
IdleNode == [kind |-> "null"]
NoOut == [of |-> [rec |-> NoReq, after |-> <<>>], text |-> <<>>]
\* asked:   the is_starred calls made so far, <<owner, repo>> each
\* sent:    the paths handed to Github::get, one for each call of it
\* reply:   what the request of the last call resolved to, once it has
\* starred: what the future is_starred returned resolved to, once it has
Idle == [kind |-> "idle"]
Pending == [kind |-> "pending"]
StarsIdle ==
  /\ asked = <<>>
  /\ sent = <<>>
  /\ reply = Idle
  /\ starred = Idle

Init ==
  /\ builder \in {DeploymentReqBuilder_new(c) : c \in Strings}
                 \cup {PullEditBuilder_new}
                 \cup {ReleaseBuilder_new(t) : t \in Strings}
                 \cup {DeploymentStatusReqBuilder_new(st) : st \in States}
                 \cup {StatusBuilder_new(st) : st \in States}
                 \cup {NoBuilder}
  /\ calls = <<>>
  /\ req = [rec |-> NoReq, after |-> <<>>]
  /\ out = NoOut
  /\ human = FALSE
  /\ relaxed = FALSE
  /\ node = IdleNode
  /\ request = "none"
  /\ result = NoResult
  /\ shown = None
  /\ StarsIdle

\* A setter call that writes through to the record built earlier, as if the
\* record referred back to the builder.
Call_WritesThrough(b2, name, v) ==
  /\ Len(calls) < MaxCalls
  /\ builder' = b2
  /\ calls' = Append(calls, <<name, v>>)
  /\ req' = IF req.rec.kind = "none" THEN req ELSE [req EXCEPT !.rec = Build(b2)]
  /\ UNCHANGED <<out, human, relaxed, node, request, result, shown, asked, sent, reply, starred>>

\* A setter call: the builder is replaced by the setter's result.
Call(b2, name, v) ==
  /\ Len(calls) < MaxCalls
  /\ builder' = b2
  /\ calls' = Append(calls, <<name, v>>)
  /\ UNCHANGED <<req, out, human, relaxed, node, request, result, shown, asked, sent, reply, starred>>

DeploymentReqBuilder_task_call ==
  /\ builder.kind = "DeploymentReqBuilder"
  /\ \E v \in Strings : Call(DeploymentReqBuilder_task(builder, v), "task", v)

DeploymentReqBuilder_auto_merge_call ==
  /\ builder.kind = "DeploymentReqBuilder"
  /\ \E v \in BOOLEAN : Call(DeploymentReqBuilder_auto_merge(builder, v), "auto_merge", v)

DeploymentReqBuilder_required_contexts_call ==
  /\ builder.kind = "DeploymentReqBuilder"
  /\ \E v \in StringLists :
       Call(DeploymentReqBuilder_required_contexts(builder, v), "required_contexts", v)

DeploymentReqBuilder_payload_call ==
  /\ builder.kind = "DeploymentReqBuilder"
  /\ \E v \in Jsons : Call(DeploymentReqBuilder_payload(builder, v), "payload", v)

DeploymentReqBuilder_environment_call ==
  /\ builder.kind = "DeploymentReqBuilder"
  /\ \E v \in Strings : Call(DeploymentReqBuilder_environment(builder, v), "environment", v)

DeploymentReqBuilder_description_call ==
  /\ builder.kind = "DeploymentReqBuilder"
  /\ \E v \in Strings : Call(DeploymentReqBuilder_description(builder, v), "description", v)

PullEditBuilder_title_call ==
  /\ builder.kind = "PullEditBuilder"
  /\ \E v \in Strings : Call(PullEditBuilder_title(builder, v), "title", v)

PullEditBuilder_body_call ==
  /\ builder.kind = "PullEditBuilder"
  /\ \E v \in Strings : Call(PullEditBuilder_body(builder, v), "body", v)

PullEditBuilder_state_call ==
  /\ builder.kind = "PullEditBuilder"
  /\ \E v \in Strings : Call(PullEditBuilder_state(builder, v), "state", v)

ReleaseBuilder_commitish_call ==
  /\ builder.kind = "ReleaseBuilder"
  /\ \E v \in Strings : Call(ReleaseBuilder_commitish(builder, v), "commitish", v)

ReleaseBuilder_name_call ==
  /\ builder.kind = "ReleaseBuilder"
  /\ \E v \in Strings : Call(ReleaseBuilder_name(builder, v), "name", v)

ReleaseBuilder_body_call ==
  /\ builder.kind = "ReleaseBuilder"
  /\ \E v \in Strings : Call(ReleaseBuilder_body(builder, v), "body", v)

ReleaseBuilder_draft_call ==
  /\ builder.kind = "ReleaseBuilder"
  /\ \E v \in BOOLEAN : Call(ReleaseBuilder_draft(builder, v), "draft", v)

ReleaseBuilder_prerelease_call ==
  /\ builder.kind = "ReleaseBuilder"
  /\ \E v \in BOOLEAN : Call(ReleaseBuilder_prerelease(builder, v), "prerelease", v)

DeploymentStatusReqBuilder_target_url_call ==
  /\ builder.kind = "DeploymentStatusReqBuilder"
  /\ \E v \in Strings :
       Call(DeploymentStatusReqBuilder_target_url(builder, v), "target_url", v)

DeploymentStatusReqBuilder_description_call ==
  /\ builder.kind = "DeploymentStatusReqBuilder"
  /\ \E v \in Strings :
       Call(DeploymentStatusReqBuilder_description(builder, v), "description", v)

StatusBuilder_target_url_call ==
  /\ builder.kind = "StatusBuilder"
  /\ \E v \in Strings : Call(StatusBuilder_target_url(builder, v), "target_url", v)

StatusBuilder_description_call ==
  /\ builder.kind = "StatusBuilder"
  /\ \E v \in Strings : Call(StatusBuilder_description(builder, v), "description", v)

StatusBuilder_context_call ==
  /\ builder.kind = "StatusBuilder"
  /\ \E v \in Strings : Call(StatusBuilder_context(builder, v), "context", v)

\* builder.build(): the builder is only read.
BuildCall ==
  /\ builder.kind # "none"
  /\ req' = [rec |-> Build(builder), after |-> calls]
  /\ UNCHANGED <<builder, calls, out, human, relaxed, node, request, result, shown, asked, sent, reply, starred>>

\* GistReq has no builder: the record is made by GistReq::new.
GistReq_new_call ==
  /\ builder.kind = "none"
  /\ \E desc \in {None} \cup {Some(d) : d \in Strings}, public \in BOOLEAN,
        files \in FileMaps :
       req' = [rec |-> GistReq_new(desc, public, files), after |-> <<>>]
  /\ UNCHANGED <<builder, calls, out, human, relaxed, node, request, result, shown, asked, sent, reply, starred>>

\* json::encode(&req)
EncodeCall ==
  /\ req.rec.kind # "none"
  /\ out' = [of |-> req, text |-> Encode(req.rec)]
  /\ UNCHANGED <<builder, calls, req, human, relaxed, node, request, result, shown, asked, sent, reply, starred>>

Next ==
  \/ DeploymentReqBuilder_task_call
  \/ DeploymentReqBuilder_auto_merge_call
  \/ DeploymentReqBuilder_required_contexts_call
  \/ DeploymentReqBuilder_payload_call
  \/ DeploymentReqBuilder_environment_call
  \/ DeploymentReqBuilder_description_call
  \/ PullEditBuilder_title_call
  \/ PullEditBuilder_body_call
  \/ PullEditBuilder_state_call
  \/ ReleaseBuilder_commitish_call
  \/ ReleaseBuilder_name_call
  \/ ReleaseBuilder_body_call
  \/ ReleaseBuilder_draft_call
  \/ ReleaseBuilder_prerelease_call
  \/ DeploymentStatusReqBuilder_target_url_call
  \/ DeploymentStatusReqBuilder_description_call
  \/ StatusBuilder_target_url_call
  \/ StatusBuilder_description_call
  \/ StatusBuilder_context_call
  \/ BuildCall
  \/ GistReq_new_call
  \/ EncodeCall


\* ------------------------------------------------------------ 64-bit integers
\* A 64-bit integer is its 8 bytes, most significant first.  A u64 reads them
\* as an unsigned number, an i64 as a two's complement number.
Zero64 == <<0, 0, 0, 0, 0, 0, 0, 0>>
\* i64::MAX = 2^63 - 1
I64Max == <<127, 255, 255, 255, 255, 255, 255, 255>>
\* u64::MAX = 2^64 - 1: -1 as an i64.
U64Max == <<255, 255, 255, 255, 255, 255, 255, 255>>

RECURSIVE IncAt(_, _)
IncAt(w, i) ==
  IF i = 0 THEN w
  ELSE IF w[i] = 255 THEN IncAt([w EXCEPT ![i] = 0], i - 1)
  ELSE [w EXCEPT ![i] = w[i] + 1]

RECURSIVE DecAt(_, _)
DecAt(w, i) ==
  IF i = 0 THEN w
  ELSE IF w[i] = 0 THEN DecAt([w EXCEPT ![i] = 255], i - 1)
  ELSE [w EXCEPT ![i] = w[i] - 1]

\* w + 1 and w - 1, modulo 2^64.
Succ64(w) == IncAt(w, 8)
Pred64(w) == DecAt(w, 8)

RECURSIVE Shift64(_, _)
Shift64(w, k) ==
  IF k = 0 THEN w
  ELSE IF k > 0 THEN Shift64(Succ64(w), k - 1)
  ELSE Shift64(Pred64(w), k + 1)

IsNeg64(w) == w[1] >= 128
\* -w modulo 2^64: the magnitude of a negative i64, read as a u64.
Neg64(w) == Succ64([i \in 1..8 |-> 255 - w[i]])

\* a < b for two u64.
RECURSIVE ULtAt(_, _, _)
ULtAt(a, b, i) ==
  IF i > 8 THEN FALSE
  ELSE IF a[i] # b[i] THEN a[i] < b[i]
  ELSE ULtAt(a, b, i + 1)

\* a <= b for two i64.
SLe64(a, b) ==
  IF IsNeg64(a) # IsNeg64(b) THEN IsNeg64(a) ELSE ~ULtAt(b, a, 1)

\* Schoolbook division of a u64 by d (d < 2^23): the quotient's bytes and the
\* remainder.
RECURSIVE LongDiv(_, _, _, _, _)
LongDiv(w, i, rem, q, d) ==
  IF i > 8 THEN [q |-> q, r |-> rem]
  ELSE LET cur == rem * 256 + w[i]
       IN  LongDiv(w, i + 1, cur % d, Append(q, cur \div d), d)

UDivMod(w, d) == LongDiv(w, 1, 0, <<>>, d)

\* ------------------------------------------------------------ chrono
SecsPerDay == 86400
\* The day number (days since 0000-12-31) of 1970-01-01.
EpochDayCE == 719163
\* The day numbers of NaiveDate's first and last day (years -262144 and 262143).
MinDayCE == -95746495
MaxDayCE == 95745764
I32Max == 2147483647

\* The first and the last second chrono can represent:
\* -8334632851200 and 8210298412799.
MinTimestamp == <<255, 255, 248, 107, 113, 43, 105, 0>>
MaxTimestamp == <<0, 0, 7, 119, 155, 235, 158, 255>>

\* Division that rounds toward zero, as Rust's / and % do: the remainder of a
\* negative number is negative.
DivModFloorDays_Truncating(v) ==
  LET neg == IsNeg64(v)
      dm == UDivMod(IF neg THEN Neg64(v) ELSE v, SecsPerDay)
      fits == /\ \A i \in 1..4 : dm.q[i] = 0
              /\ dm.q[5] < 128
      q == ((dm.q[5] * 256 + dm.q[6]) * 256 + dm.q[7]) * 256 + dm.q[8]
  IN  IF ~fits THEN None
      ELSE IF ~neg THEN Some([days |-> q, secs |-> dm.r])
      ELSE Some([days |-> -q, secs |-> -dm.r])

\* div_mod_floor(secs, 86400) followed by days.to_i32(): None when the day
\* count does not fit an i32, else Some of [days, secs].  (A day count of
\* exactly -2^31 is reported as None as well: it is no date either.)
DivModFloorDays(v) ==
  LET neg == IsNeg64(v)
      dm == UDivMod(IF neg THEN Neg64(v) ELSE v, SecsPerDay)
      fits == /\ \A i \in 1..4 : dm.q[i] = 0
              /\ dm.q[5] < 128
      q == ((dm.q[5] * 256 + dm.q[6]) * 256 + dm.q[7]) * 256 + dm.q[8]
  IN  IF ~fits THEN None
      ELSE IF ~neg THEN Some([days |-> q, secs |-> dm.r])
      ELSE IF dm.r = 0 THEN Some([days |-> -q, secs |-> 0])
      ELSE Some([days |-> -q - 1, secs |-> SecsPerDay - dm.r])

\* NaiveDate::from_num_days_from_ce_opt: a date is its day number.
NaiveDate_from_num_days_from_ce_opt(days) ==
  IF MinDayCE <= days /\ days <= MaxDayCE THEN Some(days) ELSE None

\* NaiveTime::from_num_seconds_from_midnight_opt(secs as u32, 0): a negative
\* secs is a huge u32, and no time.
NaiveTime_from_num_seconds_from_midnight_opt(secs) ==
  IF 0 <= secs /\ secs < SecsPerDay THEN Some(secs) ELSE None

\* NaiveDateTime::from_timestamp_opt(secs, 0)
NaiveDateTime_from_timestamp_opt(v) ==
  LET dm == DivModFloorDays(v)
      date == IF is_some(dm) /\ dm[1].days <= I32Max - EpochDayCE
              THEN NaiveDate_from_num_days_from_ce_opt(dm[1].days + EpochDayCE)
              ELSE None
      time == IF is_some(dm)
              THEN NaiveTime_from_num_seconds_from_midnight_opt(dm[1].secs)
              ELSE None
  IN  IF is_some(date) /\ is_some(time)
      THEN Some([date |-> date[1], secs |-> time[1], nanos |-> 0])
      ELSE None

\* Utc.timestamp_opt(secs, 0): a LocalResult.  Utc has no ambiguous times.
timestamp_opt(v) ==
  LET dt == NaiveDateTime_from_timestamp_opt(v)
  IN  IF is_some(dt) THEN [lr |-> "Single", dt |-> dt[1]] ELSE [lr |-> "None"]

\* ------------------------------------------------------------ text
\* A &str is the sequence of its characters.
Digits == <<"0", "1", "2", "3", "4", "5", "6", "7", "8", "9">>
IsDigit(c) == \E i \in 1..10 : Digits[i] = c
DigitVal(c) == (CHOOSE i \in 1..10 : Digits[i] = c) - 1
Drop(s, n) == SubSeq(s, n + 1, Len(s))

RECURSIVE trim_left(_)
trim_left(s) == IF s # <<>> /\ s[1] = " " THEN trim_left(Tail(s)) ELSE s

\* The decimal digits of n >= 0, and {:0w}: at least w of them.
RECURSIVE DigitsOf(_)
DigitsOf(n) ==
  IF n < 10 THEN <<Digits[n + 1]>>
  ELSE Append(DigitsOf(n \div 10), Digits[(n % 10) + 1])
RECURSIVE Pad(_, _)
Pad(s, w) == IF Len(s) < w THEN Pad(<<"0">> \o s, w) ELSE s
Fmt0(n, w) == Pad(DigitsOf(n), w)

RECURSIVE ValueOf(_)
ValueOf(s) == IF s = <<>> THEN 0 ELSE ValueOf(SubSeq(s, 1, Len(s) - 1)) * 10 + DigitVal(s[Len(s)])
RECURSIVE StripZeros(_)
StripZeros(s) == IF Len(s) > 1 /\ s[1] = "0" THEN StripZeros(Tail(s)) ELSE s
RECURSIVE Pow10(_)
Pow10(k) == IF k = 0 THEN 1 ELSE 10 * Pow10(k - 1)

\* ------------------------------------------------------------ calendar
\* chrono's NaiveDate is the proleptic Gregorian calendar; a date is held as
\* its day number, 0001-01-01 being day 1.
MinYear == -262144
MaxYear == 262143
IsLeapYear(y) == y % 4 = 0 /\ (y % 100 # 0 \/ y % 400 = 0)
DaysInMonth(y, m) ==
  IF m = 2 THEN (IF IsLeapYear(y) THEN 29 ELSE 28)
  ELSE IF m \in {4, 6, 9, 11} THEN 30 ELSE 31

\* NaiveDate::from_ymd_opt(y, m, d) as a day number.
NaiveDate_from_ymd_opt(y, m, d) ==
  IF ~(MinYear <= y /\ y <= MaxYear /\ 1 <= m /\ m <= 12 /\ 1 <= d
       /\ d <= DaysInMonth(y, m))
  THEN None
  ELSE LET yy == IF m <= 2 THEN y - 1 ELSE y
           era == yy \div 400
           yoe == yy - era * 400
           mp == IF m > 2 THEN m - 3 ELSE m + 9
           doy == (153 * mp + 2) \div 5 + d - 1
           doe == yoe * 365 + yoe \div 4 - yoe \div 100 + doy
       IN  Some(era * 146097 + doe - 305)

\* Datelike::year(), month(), day() of a day number.
NaiveDate_ymd(date) ==
  LET z == date + 305
      era == z \div 146097
      doe == z - era * 146097
      yoe == (doe - doe \div 1460 + doe \div 36524 - doe \div 146096) \div 365
      doy == doe - (365 * yoe + yoe \div 4 - yoe \div 100)
      mp == (5 * doy + 2) \div 153
      m == IF mp < 10 THEN mp + 3 ELSE mp - 9
  IN  [y |-> yoe + era * 400 + (IF m <= 2 THEN 1 ELSE 0), m |-> m,
       d |-> doy - (153 * mp + 2) \div 5 + 1]

\* ------------------------------------------------------------ chrono::format
\* impl Display for ParseError
ParseError_fmt(kind) ==
  CASE kind = "OutOfRange" -> "input is out of range"
    [] kind = "Impossible" -> "no possible date and time matching input"
    [] kind = "NotEnough" -> "input is not enough for unique date and time"
    [] kind = "Invalid" -> "input contains invalid characters"
    [] kind = "TooShort" -> "premature end of input"
    [] kind = "TooLong" -> "trailing input"

\* A scanner returns the rest of the input and a value, or a ParseError.
Scanned(rest, v) == [ok |-> TRUE, rest |-> rest, v |-> v]
ScanErr(kind) == [ok |-> FALSE, kind |-> kind]

\* scan::number(s, min, max): between min and max leading digits.  A number
\* of more than nine significant digits is beyond every field's range.
scan_number(s, min, max) ==
  LET window == IF Len(s) > max THEN SubSeq(s, 1, max) ELSE s
      stops == {i \in 1..Len(window) : ~IsDigit(window[i])}
      upto == IF stops = {} THEN Len(window)
              ELSE (CHOOSE i \in stops : \A j \in stops : i <= j) - 1
      digits == StripZeros(SubSeq(s, 1, upto))
  IN  IF upto < min
      THEN ScanErr(IF window = <<>> THEN "TooShort" ELSE "Invalid")
      ELSE IF Len(digits) > 9 THEN ScanErr("OutOfRange")
      ELSE Scanned(Drop(s, upto), ValueOf(digits))

RECURSIVE trim_left_digits(_)
trim_left_digits(s) ==
  IF s # <<>> /\ IsDigit(s[1]) THEN trim_left_digits(Tail(s)) ELSE s

\* scan::nanosecond(s): up to nine digits of a fraction, scaled to
\* nanoseconds; further digits are dropped.
scan_nanosecond(s) ==
  LET n == scan_number(s, 1, 9)
  IN  IF ~n.ok THEN n
      ELSE Scanned(trim_left_digits(n.rest),
                   n.v * Pow10(9 - (Len(s) - Len(n.rest))))

\* scan::colon_or_space
RECURSIVE colon_or_space(_)
colon_or_space(s) ==
  IF s # <<>> /\ s[1] \in {":", " "} THEN colon_or_space(Tail(s)) ELSE s

\* scan::timezone_offset(s, colon_or_space): +hh:mm or -hh:mm, in seconds.
scan_timezone_offset(s) ==
  IF s = <<>> THEN ScanErr("TooShort")
  ELSE IF s[1] \notin {"+", "-"} THEN ScanErr("Invalid")
  ELSE LET h == Tail(s) IN
       IF Len(h) < 2 THEN ScanErr("TooShort")
       ELSE IF ~(IsDigit(h[1]) /\ IsDigit(h[2])) THEN ScanErr("Invalid")
       ELSE LET m == colon_or_space(Drop(h, 2)) IN
            IF Len(m) < 2 THEN ScanErr("TooShort")
            ELSE IF ~(IsDigit(m[1]) /\ IsDigit(m[2])) THEN ScanErr("Invalid")
            ELSE IF DigitVal(m[1]) > 5 THEN ScanErr("OutOfRange")
            ELSE LET seconds == (DigitVal(h[1]) * 10 + DigitVal(h[2])) * 3600
                                + (DigitVal(m[1]) * 10 + DigitVal(m[2])) * 60
                 IN  Scanned(Drop(m, 2),
                             IF s[1] = "-" THEN -seconds ELSE seconds)

\* The zone of a datetime string.  Every chrono reads Z and z as +00:00; the
\* relaxed parser of later releases also reads UTC in any case.
scan_zone(s, lax) ==
  IF s # <<>> /\ s[1] \in {"Z", "z"} THEN Scanned(Tail(s), 0)
  ELSE IF lax /\ Len(s) >= 3 /\ s[1] \in {"U", "u"} /\ s[2] \in {"T", "t"}
          /\ s[3] \in {"C", "c"}
  THEN Scanned(Drop(s, 3), 0)
  ELSE scan_timezone_offset(s)

\* The items of a datetime string, in order.
Space == [item |-> "Space"]
Numeric(field, width, signed) ==
  [item |-> "Numeric", field |-> field, width |-> width, signed |-> signed]
Literal(c) == [item |-> "Literal", c |-> c]
Nanosecond == [item |-> "Nanosecond"]
TimezoneOffsetZ == [item |-> "TimezoneOffsetZ"]
Separator == [item |-> "Separator"]

\* The ITEMS of impl FromStr for DateTime<FixedOffset>.  The releases of
\* chrono 0.4 that hubcaps was written against want the literal T between
\* date and time; the later ones take T, t or a space there.
ITEMS(lax) ==
  << Space, Numeric("year", 4, TRUE), Space, Literal("-"),
     Space, Numeric("month", 2, FALSE), Space, Literal("-"),
     Space, Numeric("day", 2, FALSE),
     IF lax THEN Separator ELSE Space,
     IF lax THEN Space ELSE Literal("T"),
     Space, Numeric("hour", 2, FALSE), Space, Literal(":"),
     Space, Numeric("minute", 2, FALSE), Space, Literal(":"),
     Space, Numeric("second", 2, FALSE), Nanosecond,
     Space, TimezoneOffsetZ, Space >>

\* Parsed: the fields read so far.
Parsed_new == [f \in {"year", "month", "day", "hour", "minute", "second",
                      "nanosecond", "offset"} |-> None]

\* One item of format::parse applied to the input s with the fields p.
parse_item(it, s, p, lax) ==
  CASE it.item = "Space" -> [ok |-> TRUE, s |-> trim_left(s), p |-> p]
    [] it.item = "Literal" ->
         IF s = <<>> THEN ScanErr("TooShort")
         ELSE IF s[1] # it.c THEN ScanErr("Invalid")
         ELSE [ok |-> TRUE, s |-> Tail(s), p |-> p]
    [] it.item = "Separator" ->
         IF s = <<>> THEN ScanErr("TooShort")
         ELSE IF s[1] \notin {"T", "t", " "} THEN ScanErr("Invalid")
         ELSE [ok |-> TRUE, s |-> Tail(s), p |-> p]
    [] it.item = "Numeric" ->
         LET t == trim_left(s)
             sign == IF it.signed /\ t # <<>> /\ t[1] \in {"-", "+"}
                     THEN t[1] ELSE ""
             n == IF sign = "" THEN scan_number(t, 1, it.width)
                  ELSE scan_number(Tail(t), 1, Len(t))
         IN  IF ~n.ok THEN n
             ELSE [ok |-> TRUE, s |-> n.rest,
                   p |-> [p EXCEPT ![it.field] =
                            Some(IF sign = "-" THEN -n.v ELSE n.v)]]
    [] it.item = "Nanosecond" ->
         IF s # <<>> /\ s[1] = "."
         THEN LET n == scan_nanosecond(Tail(s)) IN
              IF ~n.ok THEN n
              ELSE [ok |-> TRUE, s |-> n.rest,
                    p |-> [p EXCEPT !["nanosecond"] = Some(n.v)]]
         ELSE [ok |-> TRUE, s |-> s, p |-> p]
    [] it.item = "TimezoneOffsetZ" ->
         LET z == scan_zone(trim_left(s), lax) IN
         IF ~z.ok THEN z
         ELSE [ok |-> TRUE, s |-> z.rest,
               p |-> [p EXCEPT !["offset"] = Some(z.v)]]

\* format::parse: the items in order, then nothing may be left.
RECURSIVE parse_items(_, _, _, _)
\* try!: an error of the item ends the parse.
parse_rest(r, items, lax) ==
  IF ~r.ok THEN r ELSE parse_items(items, r.s, r.p, lax)
parse_items(items, s, p, lax) ==
  IF items = <<>>
  THEN (IF s # <<>> THEN ScanErr("TooLong") ELSE [ok |-> TRUE, p |-> p])
  ELSE parse_rest(parse_item(Head(items), s, p, lax), Tail(items), lax)

\* Parsed::to_naive_time: second 60 is a leap second, held as second 59 with
\* a fraction of a second or more.
Parsed_to_naive_time(p) ==
  LET nano == IF is_some(p["nanosecond"]) THEN p["nanosecond"][1] ELSE 0
      h == p["hour"][1]
      m == p["minute"][1]
      sec == p["second"][1]
  IN  IF h > 23 \/ m > 59 \/ sec > 60 THEN None
      ELSE IF sec = 60
      THEN Some([secs |-> h * 3600 + m * 60 + 59, nanos |-> nano + Pow10(9)])
      ELSE Some([secs |-> h * 3600 + m * 60 + sec, nanos |-> nano])

\* Parsed::to_datetime and with_timezone(&Utc): the local date and time less
\* the offset.  Subtracting past the first or last date panics.
Parsed_to_datetime(p) ==
  LET date == NaiveDate_from_ymd_opt(p["year"][1], p["month"][1], p["day"][1])
      time == Parsed_to_naive_time(p)
      offset == p["offset"][1]
  IN  IF is_none(date) \/ is_none(time) THEN ScanErr("OutOfRange")
      ELSE IF ~(-SecsPerDay < offset /\ offset < SecsPerDay)
      THEN ScanErr("OutOfRange")
      ELSE LET total == time[1].secs - offset
               day == date[1] + total \div SecsPerDay
           IN  IF day < MinDayCE \/ day > MaxDayCE THEN [ok |-> FALSE, kind |-> "panic"]
               ELSE [ok |-> TRUE,
                     dt |-> [date |-> day, secs |-> total % SecsPerDay,
                             nanos |-> time[1].nanos]]

\* impl FromStr for DateTime<Utc>
DateTime_from_str(s, lax) ==
  LET r == parse_items(ITEMS(lax), s, Parsed_new, lax)
  IN  IF ~r.ok THEN r ELSE Parsed_to_datetime(r.p)

\* impl Display for NaiveDate: years outside 0..9999 carry a sign.
NaiveDate_fmt(date) ==
  LET c == NaiveDate_ymd(date)
      year == IF 0 <= c.y /\ c.y <= 9999 THEN Fmt0(c.y, 4)
              ELSE IF c.y < 0 THEN <<"-">> \o Fmt0(-c.y, 4)
              ELSE <<"+">> \o Fmt0(c.y, 4)
  IN  year \o <<"-">> \o Fmt0(c.m, 2) \o <<"-">> \o Fmt0(c.d, 2)

\* impl Display for NaiveTime: the fraction in 3, 6 or 9 digits, or none.
NaiveTime_fmt(secs, nanos) ==
  LET leap == nanos >= Pow10(9)
      sec == (secs % 60) + (IF leap THEN 1 ELSE 0)
      nano == IF leap THEN nanos - Pow10(9) ELSE nanos
      frac == IF nano = 0 THEN <<>>
              ELSE IF nano % 1000000 = 0 THEN <<".">> \o Fmt0(nano \div 1000000, 3)
              ELSE IF nano % 1000 = 0 THEN <<".">> \o Fmt0(nano \div 1000, 6)
              ELSE <<".">> \o Fmt0(nano, 9)
  IN  Fmt0(secs \div 3600, 2) \o <<":">> \o Fmt0((secs \div 60) % 60, 2)
      \o <<":">> \o Fmt0(sec, 2) \o frac

\* impl Display for chrono::DateTime<Utc>: date, time and zone, spaced.
chrono_DateTime_Display(dt) ==
  NaiveDate_fmt(dt.date) \o <<" ">> \o NaiveTime_fmt(dt.secs, dt.nanos)
  \o <<" ", "U", "T", "C">>

\* impl Debug for chrono::DateTime<Utc>: the RFC 3339 form.
chrono_DateTime_Debug(dt) ==
  NaiveDate_fmt(dt.date) \o <<"T">> \o NaiveTime_fmt(dt.secs, dt.nanos)
  \o <<"Z">>

\* ------------------------------------------------------------ DateTime
\* A decode result: Ok(DateTime) or an error of the deserializer's error type.
Ok(dt) == [ok |-> TRUE, value |-> dt]
\* de::Error::custom(msg); msg is the pieces of the formatted message.
Err_custom(msg) == [ok |-> FALSE, error |-> "custom", msg |-> msg]
\* de::Error::invalid_type(unexpected, &visitor): the visitor's expecting()
\* text says what was wanted.
DateTimeVisitor_expecting == "date time string or seconds since unix epoch"
Err_invalid_type(unexpected) ==
  [ok |-> FALSE, error |-> "invalid_type", unexpected |-> unexpected,
   expected |-> DateTimeVisitor_expecting]

\* A match that settles an ambiguous time by taking the earlier candidate.
visit_i64_match_PicksEarlier(v, r) ==
  CASE r.lr = "None" -> Err_custom(<<"value is not a legal timestamp: ", v>>)
    [] r.lr = "Ambiguous" -> Ok(r.min)
    [] r.lr = "Single" -> Ok(r.dt)

\* The match of visit_i64 on the LocalResult r of timestamp_opt(v, 0).
visit_i64_match(v, r) ==
  CASE r.lr = "None" -> Err_custom(<<"value is not a legal timestamp: ", v>>)
    [] r.lr = "Ambiguous" ->
         Err_custom(<<"value is an ambiguous timestamp: ", v,
                      ", could be either of ", r.min, ", ", r.max>>)
    [] r.lr = "Single" -> Ok(r.dt)

\* #[derive(PartialOrd, Ord)]: instants compare by date, then by time of day.
DateTime_lt(a, b) ==
  \/ a.date < b.date
  \/ a.date = b.date /\ a.secs < b.secs
  \/ a.date = b.date /\ a.secs = b.secs /\ a.nanos < b.nanos

\* impl fmt::Display for DateTime and impl fmt::Debug for DateTime: the
\* inner chrono::DateTime<Utc> writes itself.
DateTime_Display(dt) == chrono_DateTime_Display(dt)
DateTime_Debug(dt) == chrono_DateTime_Debug(dt)

\* visit_str: v.parse(), a ParseError becoming a custom error with its
\* message.  A panic inside parse is not a result at all.
visit_str(v) ==
  LET r == DateTime_from_str(v, relaxed)
  IN  IF r.ok THEN Ok(r.dt)
      ELSE IF r.kind = "panic" THEN [ok |-> FALSE, error |-> "panic"]
      ELSE Err_custom(<<ParseError_fmt(r.kind)>>)

visit_i64(v) == visit_i64_match(v, timestamp_opt(v))

\* v as i64: the cast keeps the 64 bits, which are then read as two's
\* complement.
u64_as_i64(v) == v

visit_u64(v) == visit_i64(u64_as_i64(v))

\* Visitor's default for every other visit_* method.
visit_other(n) == Err_invalid_type(n.kind)

\* A visitor without visit_u64: an unsigned node falls to the default.
deserialize_any_NoU64(n) ==
  CASE n.kind = "str" -> visit_str(n.text)
    [] n.kind = "i64" -> visit_i64(n.bits)
    [] OTHER -> visit_other(n)

\* deserialize_any: the deserializer calls the visit method of the node's kind.
deserialize_any(n) ==
  CASE n.kind = "str" -> visit_str(n.text)
    [] n.kind = "i64" -> visit_i64(n.bits)
    [] n.kind = "u64" -> visit_u64(n.bits)
    [] OTHER -> visit_other(n)

\* deserialize_i64 is a hint.  An integer node is visited as what it is; for
\* any other node a deserializer of a self-describing format visits the node
\* as deserialize_any does (lenient), and any other reports the mismatch itself.
deserialize_i64(n, lenient) ==
  IF n.kind \in {"i64", "u64"} \/ lenient THEN deserialize_any(n)
  ELSE Err_invalid_type(n.kind)

\* ------------------------------------------------------------ decode state
\* human:   Deserializer::is_human_readable() of the decoding context
\* relaxed: whether the chrono linked in has the relaxed FromStr
\* node:    the value being decoded
\* request: the deserializer method DateTime::deserialize called
\* result:  what DateTime::deserialize returned
\* shown:   the instant whose Display text node holds, if it holds one

Day64 == <<0, 0, 0, 0, 0, 1, 81, 128>>
Landmarks == {Zero64, Day64, Neg64(Day64), MinTimestamp, MaxTimestamp, I64Max,
              U64Max}
Integers64 == {Shift64(w, k) : w \in Landmarks, k \in (-MaxOff)..MaxOff}

\* RFC 3339 datetime strings in UTC.
Rfc3339Texts ==
  { <<"2", "0", "1", "5", "-", "0", "2", "-", "1", "8", "T", "2", "3", ":", "1", "6", ":", "0", "9", "Z">>,  \* 2015-02-18T23:16:09Z
   <<"1", "9", "7", "0", "-", "0", "1", "-", "0", "1", "T", "0", "0", ":", "0", "0", ":", "0", "0", "Z">>,  \* 1970-01-01T00:00:00Z
   <<"2", "0", "1", "6", "-", "0", "2", "-", "2", "9", "T", "1", "2", ":", "0", "0", ":", "0", "0", ".", "1", "5", "0", "Z">>,  \* 2016-02-29T12:00:00.150Z
   <<"9", "9", "9", "9", "-", "1", "2", "-", "3", "1", "T", "2", "3", ":", "5", "9", ":", "5", "9", "Z">>,  \* 9999-12-31T23:59:59Z
   <<"0", "0", "0", "0", "-", "0", "1", "-", "0", "1", "T", "0", "0", ":", "0", "0", ":", "0", "0", "Z">>,  \* 0000-01-01T00:00:00Z
   <<"1", "9", "6", "9", "-", "1", "2", "-", "3", "1", "T", "2", "3", ":", "5", "9", ":", "5", "9", ".", "0", "0", "0", "0", "0", "0", "0", "0", "1", "Z">> } \* 1969-12-31T23:59:59.000000001Z

\* Strings near the grammar: offsets, short fields, other separators, signed
\* years, a leap second, the Display form.
OtherTexts ==
  { <<"2", "0", "1", "5", "-", "0", "2", "-", "1", "8", "T", "2", "3", ":", "1", "6", ":", "0", "9", "+", "0", "1", ":", "0", "0">>,  \* 2015-02-18T23:16:09+01:00
   <<"2", "0", "1", "5", "-", "0", "2", "-", "1", "8", "T", "0", "0", ":", "1", "6", ":", "0", "9", "-", "0", "5", ":", "3", "0">>,  \* 2015-02-18T00:16:09-05:30
   <<"2", "0", "1", "5", "-", "2", "-", "1", "8", "T", "2", "3", ":", "1", "6", ":", "9", "Z">>,  \* 2015-2-18T23:16:9Z
   <<"2", "0", "1", "5", "-", "0", "2", "-", "1", "8", "t", "2", "3", ":", "1", "6", ":", "0", "9", "Z">>,  \* 2015-02-18t23:16:09Z
   <<"2", "0", "1", "5", "-", "0", "2", "-", "1", "8", " ", "2", "3", ":", "1", "6", ":", "0", "9", "Z">>,  \* 2015-02-18 23:16:09Z
   <<"2", "0", "1", "5", "-", "0", "2", "-", "1", "8", "T", "2", "3", ":", "1", "6", ":", "0", "9", "z">>,  \* 2015-02-18T23:16:09z
   <<"+", "1", "2", "0", "1", "5", "-", "0", "2", "-", "1", "8", "T", "2", "3", ":", "1", "6", ":", "0", "9", "Z">>,  \* +12015-02-18T23:16:09Z
   <<"-", "0", "0", "0", "1", "-", "0", "2", "-", "1", "8", "T", "2", "3", ":", "1", "6", ":", "0", "9", "Z">>,  \* -0001-02-18T23:16:09Z
   <<"2", "0", "1", "5", "-", "0", "6", "-", "3", "0", "T", "2", "3", ":", "5", "9", ":", "6", "0", "Z">>,  \* 2015-06-30T23:59:60Z
   <<"2", "0", "1", "5", "-", "0", "2", "-", "1", "8", " ", "2", "3", ":", "1", "6", ":", "0", "9", " ", "U", "T", "C">> } \* 2015-02-18 23:16:09 UTC

\* Strings that are not datetimes.
BadTexts ==
  { <<>>,  \* (empty)
   <<"t", "e", "s", "t">>,  \* test
   <<"1", "4", "2", "4", "3", "0", "1", "3", "6", "9">>,  \* 1424301369
   <<"2", "0", "1", "5", "-", "0", "2", "-", "1", "8">>,  \* 2015-02-18
   <<"2", "0", "1", "5", "-", "0", "2", "-", "3", "0", "T", "0", "0", ":", "0", "0", ":", "0", "0", "Z">>,  \* 2015-02-30T00:00:00Z
   <<"2", "0", "1", "5", "-", "0", "2", "-", "1", "8", "T", "2", "4", ":", "0", "0", ":", "0", "0", "Z">>,  \* 2015-02-18T24:00:00Z
   <<"2", "0", "1", "5", "-", "0", "2", "-", "1", "8", "T", "2", "3", ":", "1", "6", ":", "0", "9">>,  \* 2015-02-18T23:16:09
   <<"2", "0", "1", "5", "-", "0", "2", "-", "1", "8", "T", "2", "3", ":", "1", "6", ":", "0", "9", "Z", "j", "u", "n", "k">>,  \* 2015-02-18T23:16:09Zjunk
   <<"2", "0", "1", "5", "-", "0", "2", "-", "1", "8", "T", "2", "3", ":", "1", "6", ":", "0", "9", "+", "0", "1", ":", "7", "0">>,  \* 2015-02-18T23:16:09+01:70
   <<"+", "2", "0", "0", "0", "0", "0", "0", "0", "0", "0", "-", "0", "1", "-", "0", "1", "T", "0", "0", ":", "0", "0", ":", "0", "0", "Z">> } \* +2000000000-01-01T00:00:00Z

Texts == Rfc3339Texts \cup OtherTexts \cup BadTexts

Nodes ==
  {[kind |-> k, bits |-> w] : k \in {"i64", "u64"}, w \in Integers64}
  \cup {[kind |-> "str", text |-> t] : t \in Texts}
  \cup {[kind |-> k] : k \in {"bool", "null", "f64", "seq", "map"}}

InitDecode ==
  /\ human \in BOOLEAN
  /\ relaxed \in BOOLEAN
  /\ node \in Nodes
  /\ request = "none"
  /\ result = NoResult
  /\ shown = None
  /\ builder = NoBuilder
  /\ calls = <<>>
  /\ req = [rec |-> NoReq, after |-> <<>>]
  /\ out = NoOut
  /\ StarsIdle

\* DateTime::deserialize(deserializer)
Deserialize ==
  /\ request = "none"
  /\ IF human
     THEN /\ request' = "any"
          /\ result' = deserialize_any(node)
     ELSE /\ request' = "i64"
          /\ \E lenient \in BOOLEAN : result' = deserialize_i64(node, lenient)
  /\ UNCHANGED <<human, relaxed, node, shown, builder, calls, req, out, asked, sent, reply, starred>>

\* format!("{}", dt) of a decoded DateTime; the text is the next node.
Display ==
  /\ request # "none"
  /\ result.ok
  /\ node' = [kind |-> "str", text |-> DateTime_Display(result.value)]
  /\ shown' = Some(result.value)
  /\ request' = "none"
  /\ result' = NoResult
  /\ UNCHANGED <<human, relaxed, builder, calls, req, out, asked, sent, reply, starred>>

NextDecode == Deserialize \/ Display

\* ------------------------------------------------------------ Stars
Err(e) == [ok |-> FALSE, error |-> e]

NOT_FOUND == 404
\* Status codes of a response that is not a success.
StatusCodes == {401, 403, NOT_FOUND, 500}
\* ErrorKind::Fault { code, error }: the response had a failure status.
Fault(code, error) == [kind |-> "Fault", code |-> code, error |-> error]
\* ErrorKind::Codec(_): the body of the response could not be decoded.
Codec == [kind |-> "Codec"]
\* Errors of the kinds the match does not name.
OtherErrors == {[kind |-> "Http"], [kind |-> "Msg"]}
Errors ==
  {Fault(c, e) : c \in StatusCodes, e \in {"", "Not Found"}} \cup {Codec}
    \cup OtherErrors
\* What the future of Github::get::<()> resolves to.
Outcomes == {Ok(<<>>)} \cup {Err(e) : e \in Errors}

Owners == {"o", "p"}
Repos == {"r", "s"}
\* format!("/user/starred/{}/{}", owner, repo)
starred_path(owner, repo) == "/user/starred/" \o owner \o "/" \o repo

\* .map(|_| true)
map_true(r) == IF r.ok THEN Ok(TRUE) ELSE r

\* A match that takes every failure status for "not starred".
is_starred_match_AnyFault(err) ==
  CASE err.kind = "Fault" -> Ok(FALSE)
    [] err.kind = "Codec" -> Ok(TRUE)
    [] OTHER -> Err(err)

\* match err { Fault { code: NOT_FOUND, .. } => Ok(false),
\*             Codec(_) => Ok(true), otherwise => Err(otherwise) }
is_starred_match(err) ==
  CASE err.kind = "Fault" /\ err.code = NOT_FOUND -> Ok(FALSE)
    [] err.kind = "Codec" -> Ok(TRUE)
    [] OTHER -> Err(err)

\* .or_else(|err| match err { .. })
or_else_match(r) == IF r.ok THEN r ELSE is_starred_match(r.error)

\* Stars::is_starred(owner, repo): one call of Github::get, whose future is
\* wrapped and returned.
is_starred ==
  /\ Len(asked) < MaxAsked
  /\ reply # Pending
  /\ \E owner \in Owners, repo \in Repos :
       /\ asked' = Append(asked, <<owner, repo>>)
       /\ sent' = Append(sent, starred_path(owner, repo))
  /\ reply' = Pending
  /\ starred' = Pending
  /\ UNCHANGED <<builder, calls, req, out, human, relaxed, node, request, result,
                 shown>>

\* The request resolves, and with it the future is_starred returned.
Resolve ==
  /\ reply = Pending
  /\ \E o \in Outcomes :
       /\ reply' = o
       /\ starred' = or_else_match(map_true(o))
  /\ UNCHANGED <<builder, calls, req, out, human, relaxed, node, request, result,
                 shown, asked, sent>>

InitStars ==
  /\ StarsIdle
  /\ builder = NoBuilder
  /\ calls = <<>>
  /\ req = [rec |-> NoReq, after |-> <<>>]
  /\ out = NoOut
  /\ human = FALSE
  /\ relaxed = FALSE
  /\ node = IdleNode
  /\ request = "none"
  /\ result = NoResult
  /\ shown = None

NextStars == is_starred \/ Resolve

\* ------------------------------------------------------------ specifications
\* The builders and the encoder.
Spec == Init /\ [][Next]_vars

\* The DateTime decoder.
SpecDecode == InitDecode /\ [][NextDecode]_vars

\* The starred query.
SpecStars == InitStars /\ [][NextStars]_vars

\* ------------------------------------------------------------ record layouts
\* The fields of each request record in declaration order: the field, the key
\* it is written under, the builder's setter for it ("" when it has none),
\* whether it is an Option, and the type of its value.
F(field, key, setter, optional, type) ==
  [field |-> field, key |-> key, setter |-> setter, optional |-> optional,
   type |-> type]

DeploymentReq_fields ==
  << F("commit_ref", "ref", "", FALSE, "str"),
     F("task", "task", "task", TRUE, "str"),
     F("auto_merge", "auto_merge", "auto_merge", TRUE, "bool"),
     F("required_contexts", "required_contexts", "required_contexts", TRUE, "list"),
     F("payload", "payload", "payload", TRUE, "json"),
     F("environment", "environment", "environment", TRUE, "str"),
     F("description", "description", "description", TRUE, "str") >>

PullEdit_fields ==
  << F("title", "title", "title", TRUE, "str"),
     F("body", "body", "body", TRUE, "str"),
     F("state", "state", "state", TRUE, "str") >>

ReleaseReq_fields ==
  << F("tag_name", "tag_name", "", FALSE, "str"),
     F("target_commitish", "target_commitish", "commitish", TRUE, "str"),
     F("name", "name", "name", TRUE, "str"),
     F("body", "body", "body", TRUE, "str"),
     F("draft", "draft", "draft", TRUE, "bool"),
     F("prerelease", "prerelease", "prerelease", TRUE, "bool") >>

DeploymentStatusReq_fields ==
  << F("state", "state", "", FALSE, "enum"),
     F("target_url", "target_url", "target_url", TRUE, "str"),
     F("description", "description", "description", TRUE, "str") >>

StatusReq_fields ==
  << F("state", "state", "", FALSE, "enum"),
     F("target_url", "target_url", "target_url", TRUE, "str"),
     F("description", "description", "description", TRUE, "str"),
     F("context", "context", "context", TRUE, "str") >>

GistReq_fields ==
  << F("description", "description", "", TRUE, "str"),
     F("public", "public", "", TRUE, "bool"),
     F("files", "files", "", FALSE, "map") >>

Fields(kind) ==
  CASE kind = "DeploymentReq" -> DeploymentReq_fields
    [] kind = "PullEdit" -> PullEdit_fields
    [] kind = "ReleaseReq" -> ReleaseReq_fields
    [] kind = "DeploymentStatusReq" -> DeploymentStatusReq_fields
    [] kind = "StatusReq" -> StatusReq_fields
    [] kind = "GistReq" -> GistReq_fields

\* The constructor call that made builder b: the mandatory field is never set again.
NewOf(b) ==
  CASE b.kind = "DeploymentReqBuilder" -> DeploymentReqBuilder_new(b.commit_ref)
    [] b.kind = "PullEditBuilder" -> PullEditBuilder_new
    [] b.kind = "ReleaseBuilder" -> ReleaseBuilder_new(b.tag)
    [] b.kind = "DeploymentStatusReqBuilder" -> DeploymentStatusReqBuilder_new(b.state)
    [] b.kind = "StatusBuilder" -> StatusBuilder_new(b.state)

\* The setter call c = <<setter, argument>> made on builder b.
ApplyCall(b, c) ==
  CASE b.kind = "DeploymentReqBuilder" /\ c[1] = "task" -> DeploymentReqBuilder_task(b, c[2])
    [] b.kind = "DeploymentReqBuilder" /\ c[1] = "auto_merge" ->
         DeploymentReqBuilder_auto_merge(b, c[2])
    [] b.kind = "DeploymentReqBuilder" /\ c[1] = "required_contexts" ->
         DeploymentReqBuilder_required_contexts(b, c[2])
    [] b.kind = "DeploymentReqBuilder" /\ c[1] = "payload" ->
         DeploymentReqBuilder_payload(b, c[2])
    [] b.kind = "DeploymentReqBuilder" /\ c[1] = "environment" ->
         DeploymentReqBuilder_environment(b, c[2])
    [] b.kind = "DeploymentReqBuilder" /\ c[1] = "description" ->
         DeploymentReqBuilder_description(b, c[2])
    [] b.kind = "PullEditBuilder" /\ c[1] = "title" -> PullEditBuilder_title(b, c[2])
    [] b.kind = "PullEditBuilder" /\ c[1] = "body" -> PullEditBuilder_body(b, c[2])
    [] b.kind = "PullEditBuilder" /\ c[1] = "state" -> PullEditBuilder_state(b, c[2])
    [] b.kind = "ReleaseBuilder" /\ c[1] = "commitish" -> ReleaseBuilder_commitish(b, c[2])
    [] b.kind = "ReleaseBuilder" /\ c[1] = "name" -> ReleaseBuilder_name(b, c[2])
    [] b.kind = "ReleaseBuilder" /\ c[1] = "body" -> ReleaseBuilder_body(b, c[2])
    [] b.kind = "ReleaseBuilder" /\ c[1] = "draft" -> ReleaseBuilder_draft(b, c[2])
    [] b.kind = "ReleaseBuilder" /\ c[1] = "prerelease" -> ReleaseBuilder_prerelease(b, c[2])
    [] b.kind = "DeploymentStatusReqBuilder" /\ c[1] = "target_url" ->
         DeploymentStatusReqBuilder_target_url(b, c[2])
    [] b.kind = "DeploymentStatusReqBuilder" /\ c[1] = "description" ->
         DeploymentStatusReqBuilder_description(b, c[2])
    [] b.kind = "StatusBuilder" /\ c[1] = "target_url" -> StatusBuilder_target_url(b, c[2])
    [] b.kind = "StatusBuilder" /\ c[1] = "description" -> StatusBuilder_description(b, c[2])
    [] b.kind = "StatusBuilder" /\ c[1] = "context" -> StatusBuilder_context(b, c[2])

RECURSIVE ApplyCalls(_, _)
ApplyCalls(b, h) ==
  IF h = <<>> THEN b ELSE ApplyCalls(ApplyCall(b, Head(h)), Tail(h))

\* json::encode(&b.build()) of the builder made by b's constructor and calls h.
EncodeAfter(b, h) == Encode(Build(ApplyCalls(NewOf(b), h)))

\* ------------------------------------------------------------ reading an output
\* The top-level fields of an encoded object, in the order written: the key and
\* the tokens of its value. Separators are not needed to tell fields apart.
RECURSIVE ScanFields(_, _, _, _)
ScanFields(t, i, depth, acc) ==
  IF i > Len(t) THEN acc
  ELSE
    LET tok == t[i]
        n == Len(acc)
        put == IF n = 0 THEN acc
               ELSE [acc EXCEPT ![n] = [@ EXCEPT !.val = Append(@, tok)]]
    IN  CASE tok \in {P("{"), P("[")} ->
               ScanFields(t, i + 1, depth + 1, IF depth = 0 THEN acc ELSE put)
          [] tok \in {P("}"), P("]")} ->
               ScanFields(t, i + 1, depth - 1, IF depth = 1 THEN acc ELSE put)
          [] depth = 1 /\ tok[1] = "key" ->
               ScanFields(t, i + 1, depth, Append(acc, [key |-> tok[2], val |-> <<>>]))
          [] depth = 1 /\ tok \in {P(","), P(":")} -> ScanFields(t, i + 1, depth, acc)
          [] OTHER -> ScanFields(t, i + 1, depth, put)

TopFields(t) == ScanFields(t, 1, 0, <<>>)
TopKeys(t) == LET fs == TopFields(t) IN [i \in DOMAIN fs |-> fs[i].key]
Range(q) == {q[i] : i \in DOMAIN q}

\* The keys of the mandatory fields of a record type, in declaration order.
MandatoryKeys(kind) ==
  LET m == SelectSeq(Fields(kind), LAMBDA f : ~f.optional)
  IN  [i \in DOMAIN m |-> m[i].key]

Built == out.of.rec.kind # "none"
FromBuilder == out.of.rec.kind \notin {"none", "GistReq"}
\* The output is that of the builder as it is now.
Fresh == FromBuilder /\ out.of.after = calls /\ req = out.of

\* ------------------------------------------------------------ claims
Kind == out.of.rec.kind
Setters(h) == [i \in DOMAIN h |-> h[i][1]]
DistinctSetters(h) == \A i, j \in DOMAIN h : h[i][1] = h[j][1] => i = j
\* The field of record type kind that setter s sets.
FieldOf(kind, s) == CHOOSE f \in Range(Fields(kind)) : f.setter = s
DeclaredKeys(kind) == [i \in DOMAIN Fields(kind) |-> Fields(kind)[i].key]
\* The sequences obtained by reordering h.
Reorderings(h) ==
  {[i \in DOMAIN h |-> h[f[i]]] : f \in Permutations(DOMAIN h)}

\* C1: an optional field that is absent in the built record has no key in the
\* encoded output, for every request type (so in particular no key with null).
C1_AbsentFieldsOmitted ==
  Built =>
    \A f \in Range(Fields(Kind)) :
      (f.optional /\ is_none(out.of.rec[f.field]))
        => f.key \notin Range(TopKeys(out.text))

\* C2: the encoded output of build() is the same for every reordering of a
\* set of setter calls, and its keys follow the declared order of the fields
\* whatever the order of the calls.
C2_SetterOrderIrrelevant ==
  (Fresh /\ DistinctSetters(calls)) =>
    LET keys == TopKeys(out.text)
        keyset == Range(keys)
    IN  /\ \A h \in Reorderings(calls) : EncodeAfter(builder, h) = out.text
        /\ keys = SelectSeq(DeclaredKeys(Kind), LAMBDA k : k \in keyset)
        /\ \A i \in DOMAIN calls : FieldOf(Kind, calls[i][1]).key \in keyset

\* C2's case: context, description and target_url set in that order on a
\* StatusBuilder, and the record encoded.
C2_Witness ==
  /\ Fresh
  /\ Kind = "StatusReq"
  /\ Setters(calls) = <<"context", "description", "target_url">>
  /\ TopKeys(out.text) = <<"state", "target_url", "description", "context">>

\* C3: a builder on which no setter was called encodes to exactly the
\* mandatory keys; a DeploymentReq builder to the single pair ref -> r.
C3_OnlyMandatoryKeys ==
  (FromBuilder /\ out.of.after = <<>>) =>
    /\ TopKeys(out.text) = MandatoryKeys(Kind)
    /\ Kind = "DeploymentReq" =>
         out.text = <<P("{"), Key("ref"), P(":"), <<"str", out.of.rec.commit_ref>>, P("}")>>

\* C4: the first call of a setter adds exactly one key to the encoded output
\* of build() and leaves the other keys, their values and their order as
\* they were.
C4_SetterAddsOneKey ==
  (Fresh /\ calls # <<>>
     /\ calls[Len(calls)][1] \notin Range(Setters(SubSeq(calls, 1, Len(calls) - 1)))) =>
    LET before == TopFields(EncodeAfter(builder, SubSeq(calls, 1, Len(calls) - 1)))
        after == TopFields(out.text)
        k == FieldOf(Kind, calls[Len(calls)][1]).key
    IN  /\ Len(after) = Len(before) + 1
        /\ SelectSeq(after, LAMBDA f : f.key # k) = before
        /\ \A i \in DOMAIN before : before[i].key # k

IsEmptyArg(type, v) ==
  CASE type = "str" -> v = ""
    [] type = "bool" -> v = FALSE
    [] type = "list" -> v = <<>>
    [] OTHER -> FALSE

EmptyTokens(type) ==
  CASE type = "str" -> emit_str("")
    [] type = "bool" -> emit_bool(FALSE)
    [] type = "list" -> <<P("["), P("]")>>

\* The calls of h that are not calls of setter s.
Without(h, s) == SelectSeq(h, LAMBDA c : c[1] # s)
\* Call i is the last call of its setter in h.
IsLastCall(h, i) == \A j \in DOMAIN h : h[j][1] = h[i][1] => j <= i

\* C5: a field set to an empty value (empty string, false, empty list) is
\* present: its key is written with that empty value, and the output differs
\* from that of the same builder on which the field was never set.
C5_EmptyIsPresent ==
  LET fields == Range(TopFields(out.text)) IN
  /\ Fresh =>
       \A i \in DOMAIN calls :
         LET f == FieldOf(Kind, calls[i][1]) IN
         (IsLastCall(calls, i) /\ IsEmptyArg(f.type, calls[i][2])) =>
           /\ [key |-> f.key, val |-> EmptyTokens(f.type)] \in fields
           /\ out.text # EncodeAfter(builder, Without(calls, calls[i][1]))
  /\ (Kind = "GistReq" /\ out.of.rec.description = Some("")) =>
       /\ [key |-> "description", val |-> emit_str("")] \in fields
       /\ out.text # Encode([out.of.rec EXCEPT !.description = None])

\* C5's case: a builder on which a description was set to the empty string
\* and the contexts to the empty list, encoded.
C5_Witness ==
  /\ Fresh
  /\ Kind = "DeploymentReq"
  /\ calls = << <<"description", "">>, <<"required_contexts", <<>> >> >>
  /\ Len(TopKeys(out.text)) = 3

\* ------------------------------------------------------------ decode claims
Decoded == request # "none"
IsInt(n) == n.kind \in {"i64", "u64"}
\* The integer lies in the range of seconds chrono can represent.
InLegalRange(v) == SLe64(MinTimestamp, v) /\ SLe64(v, MaxTimestamp)
\* The number a node holds, as an i64 when it fits one.
FitsI64(n) == n.kind = "i64" \/ ~IsNeg64(n.bits)
\* Instant a is exactly one second after instant b.
OneSecondAfter(a, b) ==
  /\ a.nanos = b.nanos
  /\ \/ a.date = b.date /\ a.secs = b.secs + 1
     \/ a.date = b.date + 1 /\ a.secs = 0 /\ b.secs = SecsPerDay - 1

\* C6: an unsigned integer above i64::MAX is refused with a range error; it
\* is not read as a negative number of seconds.
C6_UnsignedRangeChecked ==
  (Decoded /\ node.kind = "u64" /\ IsNeg64(node.bits)) =>
    /\ ~result.ok
    /\ result.error = "range"

\* C7: an integer in the legal range decodes to an instant, and the next
\* integer, when legal, to the instant one second later, which is greater.
C7_LegalIntegersDecode ==
  (Decoded /\ IsInt(node) /\ FitsI64(node) /\ InLegalRange(node.bits)) =>
    LET next == Succ64(node.bits) IN
    /\ result.ok
    /\ result = visit_i64(node.bits)
    /\ InLegalRange(next) =>
         /\ visit_i64(next).ok
         /\ OneSecondAfter(visit_i64(next).value, result.value)
         /\ DateTime_lt(result.value, visit_i64(next).value)
         /\ visit_i64(next).value # result.value

\* C7's case: -1 decoded, the last second of 1969-12-31.
C7_Witness ==
  /\ Decoded
  /\ node = [kind |-> "i64", bits |-> U64Max]
  /\ result = Ok([date |-> EpochDayCE - 1, secs |-> SecsPerDay - 1, nanos |-> 0])

\* C8: a human-readable context asks for any value, and text is parsed and an
\* integer read as seconds in that one call; a compact context asks for an
\* i64; a node that is neither text nor an integer is a type mismatch in both.
C8_Dispatch ==
  Decoded =>
    /\ human =>
         /\ request = "any"
         /\ node.kind = "str" => result = visit_str(node.text)
         /\ node.kind = "i64" => result = visit_i64(node.bits)
         /\ node.kind = "u64" => result = visit_u64(node.bits)
    /\ ~human => request = "i64"
    /\ node.kind \notin {"str", "i64", "u64"} =>
         /\ ~result.ok
         /\ result.error = "invalid_type"
         /\ result.unexpected = node.kind
         /\ result.expected = "date time string or seconds since unix epoch"

\* C8's case: an unsigned integer decoded in a human-readable context.
C8_Witness ==
  /\ Decoded
  /\ human
  /\ node = [kind |-> "u64", bits |-> Day64]
  /\ result = Ok([date |-> EpochDayCE + 1, secs |-> 0, nanos |-> 0])

\* Two instants a time zone could offer for one timestamp.
Candidates ==
  {[date |-> EpochDayCE, secs |-> k, nanos |-> 0] : k \in {0, 3600}}

\* C9: no instant for the integer is an illegal-timestamp error naming it; two
\* candidates are an ambiguous-timestamp error naming it and both; an
\* instant is returned only for a single candidate.
C9_NoGuessing ==
  (Decoded /\ IsInt(node)) =>
    LET v == node.bits IN
    /\ ~InLegalRange(v) =>
         result = Err_custom(<<"value is not a legal timestamp: ", v>>)
    /\ result.ok => (timestamp_opt(v).lr = "Single" /\ result.value = timestamp_opt(v).dt)
    /\ \A a, b \in Candidates :
         LET r == visit_i64_match(v, [lr |-> "Ambiguous", min |-> a, max |-> b]) IN
         /\ ~r.ok
         /\ r.error = "custom"
         /\ r.msg = <<"value is an ambiguous timestamp: ", v,
                      ", could be either of ", a, ", ", b>>

\* C9's case: the second after the last one chrono represents.
C9_Witness ==
  /\ Decoded
  /\ node = [kind |-> "i64", bits |-> Succ64(MaxTimestamp)]
  /\ result = Err_custom(<<"value is not a legal timestamp: ", Succ64(MaxTimestamp)>>)

\* A datetime string of RFC 3339 in UTC: YYYY-MM-DDTHH:MM:SS, an optional
\* fraction of one to nine digits, Z; and the instant it names.
Num2(s, i) == DigitVal(s[i]) * 10 + DigitVal(s[i + 1])
IsRfc3339Utc(s) ==
  /\ Len(s) = 20 \/ (22 <= Len(s) /\ Len(s) <= 30)
  /\ \A i \in {1, 2, 3, 4, 6, 7, 9, 10, 12, 13, 15, 16, 18, 19} : IsDigit(s[i])
  /\ s[5] = "-" /\ s[8] = "-" /\ s[11] = "T" /\ s[14] = ":" /\ s[17] = ":"
  /\ s[Len(s)] = "Z"
  /\ Len(s) > 20 => (s[20] = "." /\ \A i \in 21..(Len(s) - 1) : IsDigit(s[i]))
  /\ 1 <= Num2(s, 6) /\ Num2(s, 6) <= 12
  /\ 1 <= Num2(s, 9)
  /\ Num2(s, 9) <= DaysInMonth(Num2(s, 1) * 100 + Num2(s, 3), Num2(s, 6))
  /\ Num2(s, 12) <= 23 /\ Num2(s, 15) <= 59 /\ Num2(s, 18) <= 59
Rfc3339Instant(s) ==
  [date |-> NaiveDate_from_ymd_opt(Num2(s, 1) * 100 + Num2(s, 3), Num2(s, 6),
                                   Num2(s, 9))[1],
   secs |-> Num2(s, 12) * 3600 + Num2(s, 15) * 60 + Num2(s, 18),
   nanos |-> IF Len(s) = 20 THEN 0
             ELSE ValueOf(SubSeq(s, 21, Len(s) - 1)) * Pow10(30 - Len(s))]
\* The instant is that of some such string: its year has four digits and it
\* is no leap second.
OfRfc3339Utc(dt) ==
  /\ 0 <= NaiveDate_ymd(dt.date).y
  /\ NaiveDate_ymd(dt.date).y <= 9999
  /\ dt.nanos < Pow10(9)
\* No datetime grammar takes a string without a colon.
NoColon(s) == \A i \in 1..Len(s) : s[i] # ":"
ParseErrorTexts ==
  {ParseError_fmt(k) : k \in {"OutOfRange", "Impossible", "NotEnough",
                              "Invalid", "TooShort", "TooLong"}}

\* C10: a valid RFC 3339 string in UTC decodes to the instant it names, and
\* the Display text of that instant decodes to an equal instant; a string
\* outside the datetime grammar is a parse error carrying the parser's
\* message, never an instant and never read as a number.
C10_StringsDecode ==
  (Decoded /\ human /\ node.kind = "str") =>
    /\ IsRfc3339Utc(node.text) => result = Ok(Rfc3339Instant(node.text))
    /\ (is_some(shown) /\ OfRfc3339Utc(shown[1])) => result = Ok(shown[1])
    /\ NoColon(node.text) =>
         /\ ~result.ok
         /\ result.error = "custom"
         /\ \E m \in ParseErrorTexts : result.msg = <<m>>

\* ------------------------------------------------------------ snapshots
\* C11: build() leaves the builder as it was and produces the record of the
\* builder's fields at that moment; a setter call changes no record produced
\* before it, and a later build() no record kept from an earlier one.
C11_BuildIsSnapshot ==
  [][/\ (req' # req /\ builder.kind # "none") =>
          /\ builder' = builder
          /\ calls' = calls
          /\ req' = [rec |-> Build(builder), after |-> calls]
          /\ out' = out
     /\ calls' # calls =>
          /\ req' = req
          /\ out' = out]_vars

\* C11's case: a record built and encoded, then a setter called and a second
\* record built, then one more setter called.
C11_Witness ==
  /\ out.of.rec.kind = "DeploymentReq"
  /\ req.rec.kind = "DeploymentReq"
  /\ req.rec # out.of.rec
  /\ Len(out.of.after) < Len(req.after)
  /\ Len(req.after) < Len(calls)

\* ------------------------------------------------------------ encoded text
\* json::encode: the tokens the encoder wrote, as the text of the document.
RECURSIVE json_encode_text(_, _)
json_encode_text(t, i) ==
  IF i > Len(t) THEN ""
  ELSE (IF t[i][1] \in {"str", "key"} THEN "\"" \o t[i][2] \o "\"" ELSE t[i][2])
       \o json_encode_text(t, i + 1)

json_encode(t) == json_encode_text(t, 1)

\* The tokens of one field that follows another: separator, key, colon, string.
FieldAfter(key, v) == <<P(","), Key(key), P(":"), <<"str", v>> >>

\* C12: a deployment status request encodes state first, as the quoted name of
\* its variant, then target_url, then description, each of the two only if
\* set; with state pending alone the text is {"state":"pending"}, and with both
\* optional fields set it is state, target_url, description in that order.
C12_DeploymentStatusEncoding ==
  (Built /\ Kind = "DeploymentStatusReq") =>
    LET r == out.of.rec
    IN  /\ out.text =
             <<P("{"), Key("state"), P(":"), <<"str", r.state>> >>
             \o (IF is_some(r.target_url)
                 THEN FieldAfter("target_url", r.target_url[1]) ELSE <<>>)
             \o (IF is_some(r.description)
                 THEN FieldAfter("description", r.description[1]) ELSE <<>>)
             \o <<P("}")>>
        /\ (r.state = "pending" /\ is_none(r.target_url) /\ is_none(r.description))
             => json_encode(out.text) = "{\"state\":\"pending\"}"
        /\ (r.state = "pending" /\ r.target_url = Some("test")
               /\ r.description = Some("test"))
             => json_encode(out.text) =
                  "{\"state\":\"pending\",\"target_url\":\"test\",\"description\":\"test\"}"

\* C12's case: a pending deployment status with both optional fields set,
\* encoded.
C12_Witness ==
  /\ Built
  /\ Kind = "DeploymentStatusReq"
  /\ out.of.rec.state = "pending"
  /\ out.of.rec.target_url = Some("test")
  /\ out.of.rec.description = Some("test")
  /\ Len(out.text) = 13

\* The tokens of the files object: each entry is its name and an object whose
\* only key is content.
RECURSIVE FileEntries(_, _)
FileEntries(files, i) ==
  IF i > Len(files) THEN <<>>
  ELSE (IF i # 1 THEN <<P(",")>> ELSE <<>>)
       \o <<Key(files[i][1]), P(":"),
            P("{"), Key("content"), P(":"), <<"str", files[i][2].content>>, P("}")>>
       \o FileEntries(files, i + 1)

\* C13: a gist request made by GistReq::new encodes description only when one
\* was given, then public, then files, the last two always; every entry of
\* files is an object whose only key is content, without a filename.
C13_GistEncoding ==
  (Built /\ Kind = "GistReq") =>
    LET r == out.of.rec
        d == is_some(r.description)
    IN  /\ is_some(r.public)
        /\ TopKeys(out.text) =
             (IF d THEN <<"description">> ELSE <<>>) \o <<"public", "files">>
        /\ out.text =
             <<P("{")>>
             \o (IF d THEN <<Key("description"), P(":"), <<"str", r.description[1]>>,
                             P(",")>>
                 ELSE <<>>)
             \o <<Key("public"), P(":"),
                  <<"lit", IF r.public[1] THEN "true" ELSE "false">>,
                  P(","), Key("files"), P(":"), P("{")>>
             \o FileEntries(r.files, 1)
             \o <<P("}"), P("}")>>
        /\ \A i \in 1..Len(out.text) : out.text[i] # Key("filename")
        /\ (~d /\ r.public = Some(TRUE) /\ Len(r.files) = 1
               /\ r.files[1][1] = "foo" /\ r.files[1][2].content = "bar")
             => json_encode(out.text) =
                  "{\"public\":true,\"files\":{\"foo\":{\"content\":\"bar\"}}}"

\* C13's case: a described gist of two files, encoded.
C13_Witness ==
  /\ Built
  /\ Kind = "GistReq"
  /\ is_some(out.of.rec.description)
  /\ Len(out.of.rec.files) = 2
  /\ Len(out.text) > 0

\* The argument of the last call of a setter in a history of calls, if any.
LastCall(h, name) ==
  LET I == {i \in DOMAIN h : h[i][1] = name}
  IN  IF I = {} THEN None ELSE Some(h[CHOOSE i \in I : \A j \in I : j <= i][2])

\* One string field, as the list of its token groups: none when absent.
OptField(key, o) ==
  IF is_some(o) THEN << <<Key(key), P(":"), <<"str", o[1]>> >> >> ELSE <<>>

\* Token groups written one after another with a separator between neighbours.
RECURSIVE Separated(_, _)
Separated(groups, i) ==
  IF i > Len(groups) THEN <<>>
  ELSE (IF i # 1 THEN <<P(",")>> ELSE <<>>) \o groups[i] \o Separated(groups, i + 1)

\* C14: a pull request edit encodes exactly the keys among title, body, state
\* that are set, in that order, for every combination of the three (none set
\* gives the empty object), and a record built by PullEdit::builder() encodes
\* as the record PullEdit::new makes from the same values.
C14_PullEditEncoding ==
  (Built /\ Kind = "PullEdit") =>
    LET r == out.of.rec
        h == out.of.after
        n == PullEdit_new(LastCall(h, "title"), LastCall(h, "body"),
                          LastCall(h, "state"))
    IN  /\ out.text =
             <<P("{")>>
             \o Separated(OptField("title", r.title) \o OptField("body", r.body)
                          \o OptField("state", r.state), 1)
             \o <<P("}")>>
        /\ out.text = Encode(n)
        /\ h = <<>> => json_encode(out.text) = "{}"
        /\ (r.title = Some("test") /\ is_none(r.body) /\ is_none(r.state))
             => json_encode(out.text) = "{\"title\":\"test\"}"
        /\ (r.title = Some("test") /\ r.body = Some("test") /\ is_none(r.state))
             => json_encode(out.text) = "{\"title\":\"test\",\"body\":\"test\"}"

\* C14's case: an edit built with body and state set through the builder and
\* title left out, encoded.
C14_Witness ==
  /\ Built
  /\ Kind = "PullEdit"
  /\ is_none(out.of.rec.title)
  /\ is_some(out.of.rec.body)
  /\ is_some(out.of.rec.state)
  /\ TopKeys(out.text) = <<"body", "state">>

\* ------------------------------------------------------------ field indices
\* The indices the hand-written encoders pass to emit_struct_field, in the
\* order of the calls.
IndexIfSome(acc, o) ==
  IF is_some(o)
  THEN [index |-> acc.index + 1, passed |-> Append(acc.passed, acc.index + 1)]
  ELSE acc

DeploymentReq_encode_indices(r) ==
  LET a0 == [index |-> 0, passed |-> <<0>>]
      a1 == IndexIfSome(a0, r.task)
      a2 == IndexIfSome(a1, r.auto_merge)
      a3 == IndexIfSome(a2, r.required_contexts)
      a4 == IndexIfSome(a3, r.payload)
      a5 == IndexIfSome(a4, r.environment)
      a6 == IndexIfSome(a5, r.description)
  IN  a6.passed

Content_encode_indices(c) ==
  (IF is_some(c.filename) THEN <<0>> ELSE <<>>) \o <<0>>

GistReq_encode_indices(r) ==
  LET a0 == [index |-> -1, passed |-> <<>>]
      a1 == IndexIfSome(a0, r.description)
      a2 == IndexIfSome(a1, r.public)
  IN  Append(a2.passed, a2.index + 1)

PullEdit_encode_indices(r) ==
  LET a0 == [index |-> -1, passed |-> <<>>]
      a1 == IndexIfSome(a0, r.title)
      a2 == IndexIfSome(a1, r.body)
      a3 == IndexIfSome(a2, r.state)
  IN  a3.passed

DeploymentStatusReq_encode_indices(r) ==
  LET a0 == [index |-> 0, passed |-> <<0>>]
      a1 == IndexIfSome(a0, r.target_url)
      a2 == IndexIfSome(a1, r.description)
  IN  a2.passed

StatusReq_encode_indices(r) ==
  <<0>> \o (IF is_some(r.target_url) THEN <<0>> ELSE <<>>)
       \o (IF is_some(r.description) THEN <<0>> ELSE <<>>)
       \o (IF is_some(r.context) THEN <<0>> ELSE <<>>)

encode_indices(r) ==
  CASE r.kind = "DeploymentReq" -> DeploymentReq_encode_indices(r)
    [] r.kind = "GistReq" -> GistReq_encode_indices(r)
    [] r.kind = "PullEdit" -> PullEdit_encode_indices(r)
    [] r.kind = "DeploymentStatusReq" -> DeploymentStatusReq_encode_indices(r)
    [] r.kind = "StatusReq" -> StatusReq_encode_indices(r)

\* The number of separators between the fields of the outermost object.
RECURSIVE TopSeparators(_, _, _)
TopSeparators(t, i, depth) ==
  IF i > Len(t) THEN 0
  ELSE CASE t[i] \in {P("{"), P("[")} -> TopSeparators(t, i + 1, depth + 1)
         [] t[i] \in {P("}"), P("]")} -> TopSeparators(t, i + 1, depth - 1)
         [] t[i] = P(",") /\ depth = 1 -> 1 + TopSeparators(t, i + 1, depth)
         [] OTHER -> TopSeparators(t, i + 1, depth)

Counting(q) == \A k \in DOMAIN q : q[k] = k - 1

\* C15: in every hand-written encoder, for every combination of set fields,
\* the index passed to the k-th emit_struct_field call is k - 1 (0 first, one
\* more each time, never negative), so one separator stands between every two
\* neighbouring fields of the encoded object.
C15_IndicesCountEmittedFields ==
  (Built /\ Kind # "ReleaseReq") =>
    LET r == out.of.rec
        n == Len(TopKeys(out.text))
    IN  /\ Len(encode_indices(r)) = n
        /\ Counting(encode_indices(r))
        /\ Kind = "GistReq" =>
             \A i \in DOMAIN r.files : Counting(Content_encode_indices(r.files[i][2]))
        /\ TopSeparators(out.text, 1, 0) = IF n = 0 THEN 0 ELSE n - 1

\* C15 holds of the four encoders that keep a running index.
C15_RunningIndexCounts ==
  (Built /\ Kind \notin {"ReleaseReq", "StatusReq"}) =>
    LET r == out.of.rec
        n == Len(TopKeys(out.text))
    IN  /\ Len(encode_indices(r)) = n
        /\ Counting(encode_indices(r))
        /\ TopSeparators(out.text, 1, 0) = IF n = 0 THEN 0 ELSE n - 1

\* ------------------------------------------------------------ last write wins
\* The value build() gives a field of type t whose builder field holds o.
BuiltValue(t, o) ==
  IF t = "json" /\ is_some(o) THEN Some(Json_to_string(o[1])) ELSE o

\* The fields of the builder that a step changed.
Changed == {g \in DOMAIN builder : builder'[g] # builder[g]}

\* C16: every setter call returns the builder, changes at most its own field
\* (the one of its name) and leaves it set to its argument, and never touches
\* the constructor's argument; the record
\* build() returns has the constructor's argument in its mandatory field and,
\* in each optional field, the argument of the last call of that field's setter
\* or nothing if it was never called; the payload of a deployment request is
\* the JSON text of the last payload given.
C16_LastWriteWins ==
  /\ [](req.rec.kind \notin {"none", "GistReq"} =>
         \A f \in Range(Fields(req.rec.kind)) :
           req.rec[f.field] =
             IF f.optional THEN BuiltValue(f.type, LastCall(req.after, f.setter))
             ELSE Build(NewOf(builder))[f.field])
  /\ [][calls' # calls =>
          LET c == calls'[Len(calls')] IN
          /\ calls' = Append(calls, c)
          /\ builder'.kind = builder.kind
          /\ NewOf(builder') = NewOf(builder)
          /\ Changed \subseteq {c[1]}
          /\ builder'[c[1]] = Some(c[2])]_vars

\* C16's case: a payload set twice on a deployment builder, a string and then
\* null, an environment set in between, and the record built.
C16_Witness ==
  /\ req.rec.kind = "DeploymentReq"
  /\ req.after = << <<"payload", [j |-> "String", s |-> "test"]>>,
                    <<"environment", "">>,
                    <<"payload", [j |-> "Null"]>> >>
  /\ req.rec.payload = Some("null")
  /\ req.rec.environment = Some("")
  /\ is_none(req.rec.task)

\* ------------------------------------------------------------ starred
Resolved == reply \notin {Idle, Pending}

\* C17: is_starred resolves to true when the request succeeds, to false
\* exactly when it fails with a Fault of status 404, to true when it fails with
\* a Codec error, and to the request's own error, unchanged, for every other
\* failure; each call makes one request, for /user/starred/{owner}/{repo}, and
\* none is made again after a failure.
C17_IsStarred ==
  /\ Len(sent) = Len(asked)
  /\ \A i \in DOMAIN asked :
       sent[i] = "/user/starred/" \o asked[i][1] \o "/" \o asked[i][2]
  /\ Resolved =>
       LET notFound == ~reply.ok /\ reply.error.kind = "Fault"
                         /\ reply.error.code = 404
           codec == ~reply.ok /\ reply.error.kind = "Codec"
       IN  /\ reply.ok => starred = Ok(TRUE)
           /\ notFound => starred = Ok(FALSE)
           /\ codec => starred = Ok(TRUE)
           /\ (~reply.ok /\ ~notFound /\ ~codec) => starred = reply
           /\ (starred.ok /\ ~starred.value) => notFound

\* C17's case: a second query, after one that failed with status 500, fails
\* with status 404 and resolves to false.
C17_Witness ==
  /\ Len(asked) = 2
  /\ sent = <<"/user/starred/o/r", "/user/starred/p/r">>
  /\ reply = Err(Fault(404, "Not Found"))
  /\ starred = Ok(FALSE)

====
